---- MODULE Spec2Model ----
(***************************************************************************)
(* The baking-probe loader of src/src/data/loader.py and the detector of   *)
(* src/src/data/improved_curve_detection.py:                               *)
(*   Spec           _extract_all_baking_curves on one recording            *)
(*   FirstLoadSpec  load_csv of one file into a fresh loader (role         *)
(*                  resolver, detector, curve registry)                    *)
(*   LoaderSpec     sessions of load_csv and set_current_curve calls       *)
(*   DetectorsSpec  _extract_all_baking_curves or detect_curve_boundaries  *)
(*                  on one recording                                       *)
(* Temperatures are integer degrees, timestamps integer seconds, sample    *)
(* indices are 0-based as in the source.                                   *)
(***************************************************************************)
EXTENDS Integers, Sequences, FiniteSets, TLC

VARIABLES df,            \* the recording handed to the detector
          pc,            \* position inside _extract_all_baking_curves
          i,             \* scan cursor of the outer while loop
          start_idx, peak_idx, peak_temp, search_start, end_idx, end_rule,
          curves,        \* the list being built / returned
          outcome,       \* "running", "returned" or "raised"
          scanned,       \* history: the cursor values a start was searched from
          all_curves,            \* ThermalProfileLoader.all_curves
          current_curve_index,   \* ThermalProfileLoader.current_curve_index
          data,                  \* ThermalProfileLoader.data
          sensor_assignments,    \* ThermalProfileLoader.sensor_assignments
          call,          \* history: the last public method called, with its argument
          ret,           \* history: the data frame that call returned
          state, curve_start, curve_peak, curve_peak_temp, curve_end,
          reason         \* locals of detect_curve_boundaries

\* the fields of the loader object, with the history of its last call
loader == <<all_curves, current_curve_index, data, sensor_assignments, call, ret>>

\* the locals of detect_curve_boundaries (improved_curve_detection.py)
boundary == <<state, curve_start, curve_peak, curve_peak_temp, curve_end, reason>>

vars == <<df, pc, i, start_idx, peak_idx, peak_temp, search_start, end_idx,
          end_rule, curves, outcome, scanned, loader, boundary>>

(***************************************************************************)
(* Program constants                                                       *)
(***************************************************************************)
None == -1
MIN_CURVE_DURATION == 60
MIN_PEAK_TEMP == 80
ROOM_TEMP_MAX == 35
window_size == 20
NotInserted == "Probe Not Inserted"

(***************************************************************************)
(* Bounds of the checked recordings                                        *)
(***************************************************************************)
BaseLen == 6        \* longest cold lead-in before the first bake
BakeLen == 70       \* samples a bake is held at its top temperature
GapLen == 30        \* longest cool gap between two bakes
TailLen == 90       \* longest tail after the last bake
RampLen == 1500     \* samples of the slow monotone rise
FlatLen == 100      \* flat samples after the sharp drop of the slow rise

(***************************************************************************)
(* Helpers on 0-based series                                               *)
(***************************************************************************)
\* a sequence (1-based) as a pandas column (0-based)
Col(s) == [t \in 0..(Len(s) - 1) |-> s[t + 1]]

Hold(level, len) == [t \in 1..len |-> level]

\* len samples rising (or falling) linearly from a to b, both ends included
Ramp(a, b, len) ==
    [t \in 1..len |-> IF len = 1 THEN b ELSE a + ((b - a) * (t - 1)) \div (len - 1)]

RECURSIVE SumOver(_, _, _)
SumOver(f, lo, hi) == IF lo > hi THEN 0 ELSE f[lo] + SumOver(f, lo + 1, hi)

RECURSIVE SumSqOver(_, _, _)
SumSqOver(f, lo, hi) == IF lo > hi THEN 0 ELSE f[lo] * f[lo] + SumSqOver(f, lo + 1, hi)

MaxOver(f, lo, hi) == CHOOSE m \in {f[t] : t \in lo..hi} : \A t \in lo..hi : f[t] <= m

MinOf(S) == CHOOSE x \in S : \A y \in S : x <= y
MaxOf(S) == CHOOSE x \in S : \A y \in S : x >= y

(***************************************************************************)
(* The data frame                                                          *)
(***************************************************************************)
len_df == df.len

core_col == IF "CoreTemperature" \in df.columns THEN "CoreTemperature" ELSE "CoreAverage"

core == df.val[core_col]

\* 5 * temp_smooth[t]: centred rolling mean of 5, raw value where the window
\* does not fit (fillna)
temp_smooth5(t) ==
    IF t >= 2 /\ t + 2 <= len_df - 1 THEN SumOver(core, t - 2, t + 2) ELSE 5 * core[t]

(***************************************************************************)
(* Find curve start                                                        *)
(***************************************************************************)
\* Method 1: PredictionState leaves "Probe Not Inserted" between j and j+1
StateChangeAt(j) ==
    /\ df.val["PredictionState"][j] = NotInserted
    /\ df.val["PredictionState"][j + 1] # NotInserted

Method1Start(from) ==
    IF "PredictionState" \notin df.columns THEN None
    ELSE LET changes == [j \in from..(len_df - 2) |-> StateChangeAt(j)]
             S == {j \in from..(len_df - 2) : changes[j]}
         IN  IF S = {} THEN None ELSE MinOf(S) + 1

\* Method 2, first test: rapid rise from below 40
RapidRiseAt(j) == core[j] < 40 /\ core[j + 1] - core[j] > 5

\* Method 2, second test: sustained rise after a room temperature period
\* (recent_avg = mean of core[j-5..j-1])
SustainedRiseAt(j) ==
    /\ j >= 5
    /\ SumOver(core, j - 5, j - 1) < 5 * ROOM_TEMP_MAX
    /\ 5 * core[j] > SumOver(core, j - 5, j - 1) + 15

Method2Start(from) ==
    LET rises == [j \in from..(len_df - 2) |-> RapidRiseAt(j) \/ SustainedRiseAt(j)]
        S == {j \in from..(len_df - 2) : rises[j]}
    IN  IF S = {} THEN None
        ELSE LET j == MinOf(S) IN IF RapidRiseAt(j) THEN j ELSE j - 5

\* variant: the temperature rules are tried first
FindStartIdxTemperatureFirst(from) ==
    IF Method2Start(from) # None THEN Method2Start(from) ELSE Method1Start(from)

\* lines 508-534: Method 2 is tried only when Method 1 found nothing
FindStartIdx(from) ==
    IF Method1Start(from) # None THEN Method1Start(from) ELSE Method2Start(from)

(***************************************************************************)
(* Find curve peak: first index of the maximum over start..end of data     *)
(***************************************************************************)
PeakIdxFrom(s) ==
    CHOOSE p \in s..(len_df - 1) :
        /\ \A t \in s..(len_df - 1) : core[t] <= core[p]
        /\ \A t \in s..(p - 1) : core[t] < core[p]

(***************************************************************************)
(* Find curve end                                                          *)
(***************************************************************************)
SearchStart(s, p) ==
    LET S == {j \in s..(p - 1) : core[j] > 70}
    IN  IF S = {} THEN p ELSE MinOf(S)

\* End condition 1: rapid cooling to room temperature
CoolFires(j, ss, pt) ==
    /\ j >= ss + 20
    /\ core[j] < ROOM_TEMP_MAX
    /\ pt - core[j] > 50
    /\ j + 5 < len_df
    /\ MaxOver(core, j, j + 4) < ROOM_TEMP_MAX + 5

\* End condition 2: extended stable period at room temperature.
\* With y = 5 * temp_smooth over the 21 samples j-20..j:
\*   std < 2        <=>  21 * sum(y^2) - sum(y)^2 < 4 * 25 * 20 * 21
\*   18 < mean < 35 <=>  18 * 105 < sum(y) < 35 * 105
\* (the two tests are a conjunction in the source; the mean is tested first
\* here only because it is the cheaper one)
recent_temps5(j) == [t \in (j - window_size)..j |-> temp_smooth5(t)]
WinSum(j) == SumOver(recent_temps5(j), j - window_size, j)
WinSumSq(j) == SumSqOver(recent_temps5(j), j - window_size, j)

PlateauFires(j, ss) ==
    /\ j >= ss + 60
    /\ j >= window_size
    /\ LET sum == WinSum(j)
       IN  /\ 18 * 105 < sum
           /\ sum < ROOM_TEMP_MAX * 105
           /\ 21 * WinSumSq(j) - sum * sum < 42000

\* variant: without an inflection point the end is the detection index
PlateauEndAtDetection(j, ss) ==
    LET sum == WinSum(j)
        K == {k \in (ss + 1)..(j - window_size) : 105 * core[k] > sum + 20 * 105}
    IN  IF K = {} THEN j ELSE MaxOf(K) + 1

\* where the rapid cooling started: walk back from j - window_size to ss + 1
PlateauEnd(j, ss) ==
    LET sum == WinSum(j)
        K == {k \in (ss + 1)..(j - window_size) : 105 * core[k] > sum + 20 * 105}
    IN  IF K = {} THEN j - window_size ELSE MaxOf(K) + 1

\* End condition 3: major temperature drop from peak
DropFires(j, p, pt) ==
    /\ pt - core[j] > 40
    /\ j > p + 10
    /\ j + 3 < len_df
    /\ MaxOver(core, j, j + 2) < core[j] + 5

\* start of the rapid drop: walk back from j to p + 1
DropEnd(j, p) ==
    LET K == {k \in (p + 1)..j : k > 0 /\ core[k - 1] - core[k] > 10}
    IN  IF K = {} THEN j ELSE MaxOf(K) - 1

EndFiresAt(j, ss, p, pt) ==
    CoolFires(j, ss, pt) \/ PlateauFires(j, ss) \/ DropFires(j, p, pt)

\* the end index and the rule that produced it, for a candidate with
\* search start ss, peak index p and peak temperature pt
FindEnd(ss, p, pt) ==
    LET fires == [j \in (ss + 1)..(len_df - 1) |-> EndFiresAt(j, ss, p, pt)]
        S == {j \in (ss + 1)..(len_df - 1) : fires[j]}
    IN  IF S = {} THEN [idx |-> len_df - 1, rule |-> "end_of_data"]
        ELSE LET j == MinOf(S)
             IN  IF CoolFires(j, ss, pt) THEN [idx |-> j, rule |-> "cool"]
                 ELSE IF PlateauFires(j, ss)
                      THEN [idx |-> PlateauEnd(j, ss), rule |-> "plateau"]
                      ELSE [idx |-> DropEnd(j, p), rule |-> "drop"]

(***************************************************************************)
(* Validate and store curve                                                *)
(***************************************************************************)
\* variant: either test passing is enough
IsValidCurveEither(duration, pt) == duration >= MIN_CURVE_DURATION \/ pt >= MIN_PEAK_TEMP

IsValidCurve(duration, pt) == duration >= MIN_CURVE_DURATION /\ pt >= MIN_PEAK_TEMP

\* iloc[lo : hi + 1] followed by reset_index(drop = True): the entries
\* lo..hi of a column, re-indexed from 0
Slice(col, lo, hi) == [k \in 0..(hi - lo) |-> col[lo + k]]

\* variant: the shift is measured from the second row of the slice
ShiftFromSecond(ts) == [k \in DOMAIN ts |-> ts[k] - ts[1]]

\* line 619: every timestamp minus the first timestamp of the slice
ShiftTimestamps(ts) == [k \in DOMAIN ts |-> ts[k] - ts[0]]

\* variant: the slice stops one row before the end index
CurveDataOpenEnd(s, e) ==
    [kind |-> "curve", columns |-> df.columns,
     rows |-> Slice([t \in 0..(len_df - 1) |-> t], s, e - 1),
     Timestamp |-> ShiftTimestamps(Slice(df.val["Timestamp"], s, e - 1))]

\* lines 616-622: the normalized data of a curve.  rows[k] is the row of the
\* recording that row k of the curve was copied from.
CurveData(s, e) ==
    [kind |-> "curve", columns |-> df.columns,
     rows |-> Slice([t \in 0..(len_df - 1) |-> t], s, e),
     Timestamp |-> ShiftTimestamps(Slice(df.val["Timestamp"], s, e))]

\* the cleaned recording itself, as the loader holds it when no curve is found
FrameData(f) ==
    [kind |-> "frame", columns |-> f.columns,
     rows |-> [t \in 0..(f.len - 1) |-> t],
     Timestamp |-> IF "Timestamp" \in f.columns THEN f.val["Timestamp"] ELSE <<>>]

\* self.data before the first load
NoData == [kind |-> "none", columns |-> {}, rows |-> <<>>, Timestamp |-> <<>>]

\* lines 625-636; samples is len(curve_data)
CurveInfo(s, e, pt, number) ==
    LET curve_data == CurveData(s, e)
    IN  [data |-> curve_data, start_idx |-> s, end_idx |-> e,
         start_time |-> df.val["Timestamp"][s], end_time |-> df.val["Timestamp"][e],
         max_temp |-> pt, curve_number |-> number,
         samples |-> Cardinality(DOMAIN curve_data.rows)]

\* variant: the missing column is raised as an error
MissingColumnRaises == "raised"

\* what the function does when the core temperature column is missing
MissingColumnOutcome == "returned"

(***************************************************************************)
(* The checked recordings                                                  *)
(***************************************************************************)
RECURSIVE Repeat(_, _)
Repeat(pattern, len) ==
    IF len <= 0 THEN <<>>
    ELSE IF len < Len(pattern) THEN SubSeq(pattern, 1, len)
    ELSE pattern \o Repeat(pattern, len - Len(pattern))

\* the tail after a bake: flat, or hovering around room temperature
TailOf(kind, len) ==
    IF kind = "noisy" THEN Repeat(<<30, 30, 35, 40>>, len)
    ELSE IF kind = "cold" THEN Hold(19, len)
    ELSE Hold(30, len)

\* cold lead-in, first bake, gap, optional slow reheat, second bake, tail
TwoBakes(n0, h1, n1, d, nd, pre, h2, n2, tk, nt) ==
    Hold(20, n0) \o Hold(h1, n1) \o Hold(d, nd) \o pre \o Hold(h2, n2) \o TailOf(tk, nt)

BakeRecordings ==
    {TwoBakes(n0, h1, n1, d, nd, pre, h2, n2, tk, nt) :
        n0 \in {3}, h1 \in {80, 90}, n1 \in {BakeLen - 20, BakeLen},
        d \in {30, 55}, nd \in {5, GapLen}, pre \in {<<>>, <<34, 38>>},
        h2 \in {85, 95}, n2 \in {0, BakeLen},
        tk \in {"cold", "room", "noisy"}, nt \in {GapLen, TailLen}}

\* a short spike out of a cold lead-in, then a warm flat stretch
SpikeRecordings ==
    {Hold(10, n0) \o <<h>> \o Hold(l, nt) :
        n0 \in {BaseLen - 2, BaseLen - 1}, h \in {40, 70, 100}, l \in {26, 40},
        nt \in {GapLen}}

\* series of at most two samples, and series that stay cool
DegenerateRecordings ==
    {<<>>} \cup {<<a>> : a \in {20, 90}} \cup {<<a, b>> : a \in {20, 90}, b \in {20, 90}}
    \cup {Hold(20, n0) \o Hold(h, BakeLen) \o Hold(20, nt) :
            n0 \in {3, BaseLen}, h \in {30, 40}, nt \in {0, GapLen}}

\* slow monotone rise from 20 to 97, sharp drop to 19, flat
SlowRise == Ramp(20, 97, RampLen) \o Hold(19, FlatLen)

\* heat 20 -> 90, drop to 55 within a few samples, heat again to 95
Reinsertion(lead, n1, n2) ==
    Hold(20, lead) \o Ramp(30, 90, n1) \o Ramp(80, 55, 4) \o Ramp(56, 95, n2)

ReinsertionRecordings ==
    {Reinsertion(lead, n1, n2) : lead \in {3, BaseLen}, n1 \in {BakeLen, BakeLen + 10},
                                 n2 \in {BakeLen, BakeLen + 10}}

\* monotone heating 20 -> 95 with a per-sample jitter of magnitude <= 3
Jitter(kind, t) ==
    IF kind = "none" THEN 0
    ELSE IF kind = "alternate" THEN (IF t % 2 = 0 THEN 3 ELSE -3)
    ELSE IF kind = "dip" THEN (IF t % 7 = 3 THEN -3 ELSE 0)
    ELSE (IF t % 5 = 0 THEN 3 ELSE IF t % 5 = 2 THEN -2 ELSE 0)

Heating(lead, n) == Hold(20, lead) \o Ramp(20, 95, n)

JitterKinds == {"none", "alternate", "dip", "mixed"}

HeatingRecordings ==
    {[t \in 1..(lead + n) |-> Heating(lead, n)[t] + Jitter(kind, t)] :
        lead \in {0, 3}, n \in {BakeLen, 2 * BakeLen}, kind \in JitterKinds}

\* a bake at 90 with a short dip in its middle: one reading d between
\* neighbours a and b, then back to 90
DipRecordings ==
    {Hold(20, 3) \o Hold(90, BakeLen) \o <<a, d, b, b>> \o Hold(90, GapLen) \o Hold(30, GapLen) :
        a \in {52, 90}, d \in {30, 45, 49}, b \in {36, 52, 90}}

Recordings ==
    BakeRecordings \cup SpikeRecordings \cup DegenerateRecordings \cup {SlowRise}
    \cup ReinsertionRecordings \cup HeatingRecordings \cup DipRecordings

\* PredictionState as the probe reports it: not inserted while the core is cool
StateColumn(s) == [t \in 1..Len(s) |-> IF s[t] < 35 THEN NotInserted ELSE "Cooking"]

\* recordings that are also checked with other column layouts
LayoutRecordings == SpikeRecordings \cup DegenerateRecordings \cup ReinsertionRecordings
    \cup {TwoBakes(3, 90, BakeLen, 30, nd, <<>>, 95, BakeLen, "room", GapLen) : nd \in {5, GapLen}}

Frame(cols, s) ==
    [columns |-> cols, len |-> Len(s),
     val |-> [c \in cols |-> IF c = "PredictionState" THEN Col(StateColumn(s))
                             ELSE IF c = "Timestamp" THEN [t \in 0..(Len(s) - 1) |-> 5 * t]
                             ELSE Col(s)]]

Frames ==
    {Frame({"Timestamp", "CoreTemperature"}, s) : s \in Recordings}
    \cup {Frame(cols, s) :
            cols \in {{"Timestamp", "CoreAverage"}, {"Timestamp"},
                      {"Timestamp", "CoreTemperature", "PredictionState"}},
            s \in LayoutRecordings}

(***************************************************************************)
(* The loader object                                                       *)
(***************************************************************************)
\* detect_curve_boundaries has not been entered
BoundaryNotRun ==
    /\ state = None
    /\ curve_start = None /\ curve_peak = None /\ curve_peak_temp = None
    /\ curve_end = None
    /\ reason = ""

\* the empty dict
NoAssignments == [method |-> "absent", core |-> <<>>, surface |-> <<>>, ambient |-> <<>>]

\* lines 14-19: __init__
FreshLoader ==
    /\ all_curves = <<>>
    /\ current_curve_index = 0
    /\ data = NoData
    /\ sensor_assignments = NoAssignments
    /\ call = [op |-> "__init__", arg |-> None]
    /\ ret = NoData

(***************************************************************************)
(* _extract_all_baking_curves as a state machine                           *)
(***************************************************************************)
Init ==
    /\ df \in Frames
    /\ pc = "entry"
    /\ i = 0
    /\ start_idx = None /\ peak_idx = None /\ peak_temp = None
    /\ search_start = None /\ end_idx = None /\ end_rule = "none"
    /\ curves = <<>>
    /\ outcome = "running"
    /\ scanned = {}
    /\ FreshLoader
    /\ BoundaryNotRun

\* lines 482-487: no core temperature column
NoCoreColumn ==
    /\ pc = "entry"
    /\ core_col \notin df.columns
    /\ pc' = "done"
    /\ outcome' = MissingColumnOutcome
    /\ UNCHANGED <<df, i, start_idx, peak_idx, peak_temp, search_start, end_idx,
                   end_rule, curves, scanned>>
    /\ UNCHANGED loader
    /\ UNCHANGED boundary

\* lines 489-505
Enter ==
    /\ pc = "entry"
    /\ core_col \in df.columns
    /\ i' = 0
    /\ pc' = "while"
    /\ UNCHANGED <<df, start_idx, peak_idx, peak_temp, search_start, end_idx,
                   end_rule, curves, outcome, scanned>>
    /\ UNCHANGED loader
    /\ UNCHANGED boundary

\* line 506 false: the loop is left and the list returned
WhileExit ==
    /\ pc = "while"
    /\ ~(i < len_df)
    /\ pc' = "done"
    /\ outcome' = "returned"
    /\ UNCHANGED <<df, i, start_idx, peak_idx, peak_temp, search_start, end_idx,
                   end_rule, curves, scanned>>
    /\ UNCHANGED loader
    /\ UNCHANGED boundary

\* lines 507-534: a start is found
FindStart ==
    /\ pc = "while"
    /\ i < len_df
    /\ FindStartIdx(i) # None
    /\ start_idx' = FindStartIdx(i)
    /\ pc' = "peak"
    /\ scanned' = scanned \cup {i}
    /\ UNCHANGED <<df, i, peak_idx, peak_temp, search_start, end_idx, end_rule,
                   curves, outcome>>
    /\ UNCHANGED loader
    /\ UNCHANGED boundary

\* lines 536-537: no start, break
NoStart ==
    /\ pc = "while"
    /\ i < len_df
    /\ FindStartIdx(i) = None
    /\ start_idx' = None
    /\ pc' = "done"
    /\ outcome' = "returned"
    /\ scanned' = scanned \cup {i}
    /\ UNCHANGED <<df, i, peak_idx, peak_temp, search_start, end_idx, end_rule, curves>>
    /\ UNCHANGED loader
    /\ UNCHANGED boundary

\* lines 539-549
FindPeak ==
    /\ pc = "peak"
    /\ peak_idx' = PeakIdxFrom(start_idx)
    /\ peak_temp' = core[PeakIdxFrom(start_idx)]
    /\ end_idx' = None
    /\ pc' = "end"
    /\ UNCHANGED <<df, i, start_idx, search_start, end_rule, curves, outcome, scanned>>
    /\ UNCHANGED loader
    /\ UNCHANGED boundary

\* lines 551-610
FindCurveEnd ==
    /\ pc = "end"
    /\ LET ss == SearchStart(start_idx, peak_idx)
           e == FindEnd(ss, peak_idx, peak_temp)
       IN  /\ search_start' = ss
           /\ end_idx' = e.idx
           /\ end_rule' = e.rule
    /\ pc' = "validate"
    /\ UNCHANGED <<df, i, start_idx, peak_idx, peak_temp, curves, outcome, scanned>>
    /\ UNCHANGED loader
    /\ UNCHANGED boundary

\* lines 612-647, candidate stored
Retain ==
    /\ pc = "validate"
    /\ IsValidCurve(end_idx - start_idx + 1, peak_temp)
    /\ curves' = Append(curves, CurveInfo(start_idx, end_idx, peak_temp, Len(curves) + 1))
    /\ i' = end_idx + 1
    /\ pc' = "while"
    /\ UNCHANGED <<df, start_idx, peak_idx, peak_temp, search_start, end_idx,
                   end_rule, outcome, scanned>>
    /\ UNCHANGED loader
    /\ UNCHANGED boundary

\* lines 612-614 false, 646-647: candidate dropped
Discard ==
    /\ pc = "validate"
    /\ ~IsValidCurve(end_idx - start_idx + 1, peak_temp)
    /\ i' = end_idx + 1
    /\ pc' = "while"
    /\ UNCHANGED <<df, start_idx, peak_idx, peak_temp, search_start, end_idx,
                   end_rule, curves, outcome, scanned>>
    /\ UNCHANGED loader
    /\ UNCHANGED boundary

Next ==
    \/ NoCoreColumn
    \/ Enter
    \/ WhileExit
    \/ FindStart
    \/ NoStart
    \/ FindPeak
    \/ FindCurveEnd
    \/ Retain
    \/ Discard

Spec == Init /\ [][Next]_vars

TypeOK ==
    /\ pc \in {"idle", "clean", "entry", "while", "peak", "end", "validate", "done",
              "start", "for"}
    /\ outcome \in {"running", "returned", "raised"}
    /\ i \in 0..(len_df + 1)

(***************************************************************************)
(* _identify_sensor_roles and _classify_sensors_dynamically                *)
(***************************************************************************)
sensor_cols == <<"T1", "T2", "T3", "T4", "T5", "T6", "T7", "T8">>

SensorPos(c) == CHOOSE k \in 1..Len(sensor_cols) : sensor_cols[k] = c

\* line 256, as a sequence in the order of sensor_cols
RECURSIVE PresentFrom(_, _)
PresentFrom(f, k) ==
    IF k > Len(sensor_cols) THEN <<>>
    ELSE IF sensor_cols[k] \in f.columns THEN <<sensor_cols[k]>> \o PresentFrom(f, k + 1)
    ELSE PresentFrom(f, k + 1)

available_sensors(f) == PresentFrom(f, 1)

Elems(seq) == {seq[k] : k \in 1..Len(seq)}

\* df[sensor].max(); on an empty column every maximum is NaN, which sorted()
\* treats like a tie of all channels
ColMax(f, c) == IF f.len = 0 THEN 0 ELSE MaxOver(f.val[c], 0, f.len - 1)

\* position of channel c in sorted(..., key = max): sorted() is stable, so
\* channels with equal maxima keep the order of sensor_cols
SortedPos(f, c) ==
    Cardinality({c2 \in Elems(available_sensors(f)) :
                    \/ ColMax(f, c2) < ColMax(f, c)
                    \/ (ColMax(f, c2) = ColMax(f, c) /\ SensorPos(c2) < SensorPos(c))}) + 1

\* line 279
sorted_sensors(f) ==
    [k \in 1..Len(available_sensors(f)) |->
        CHOOSE c \in Elems(available_sensors(f)) : SortedPos(f, c) = k]

\* Python slice seq[lo:hi] (0-based, hi excluded, negative bounds count from
\* the end, bounds clipped to the sequence)
PyBound(n, x) == IF x < 0 THEN (IF n + x < 0 THEN 0 ELSE n + x) ELSE (IF x > n THEN n ELSE x)

PySlice(seq, lo, hi) ==
    SubSeq(seq, PyBound(Len(seq), lo) + 1, PyBound(Len(seq), hi))

\* variant: the two channels after the coolest one
core_sensorsSkipFirst(f) == PySlice(sorted_sensors(f), 1, 3)

\* line 284
core_sensors(f) == PySlice(sorted_sensors(f), 0, 2)

\* line 286
ambient_sensors(f) == PySlice(sorted_sensors(f), -2, Len(sorted_sensors(f)))

\* lines 288-292
surface_sensors(f) ==
    IF Len(PySlice(sorted_sensors(f), 2, -2)) < 2
    THEN PySlice(sorted_sensors(f), 2, 4)
    ELSE PySlice(sorted_sensors(f), 2, -2)

RECURSIVE RowSum(_, _, _)
RowSum(f, cs, t) == IF cs = <<>> THEN 0 ELSE f.val[Head(cs)][t] + RowSum(f, Tail(cs), t)

\* df[cs].mean(axis = 1); the recordings are chosen so that the row sums
\* divide evenly
RowMean(f, cs) == [t \in 0..(f.len - 1) |-> RowSum(f, cs, t) \div Len(cs)]

\* df[cs].max(axis = 1)
RowMax(f, cs) == [t \in 0..(f.len - 1) |-> MaxOf({f.val[c][t] : c \in Elems(cs)})]

\* df[name] = col
WithColumn(f, name, col) ==
    [columns |-> f.columns \cup {name}, len |-> f.len,
     val |-> [c \in f.columns \cup {name} |-> IF c = name THEN col ELSE f.val[c]]]

HasAll(f, cs) == cs \subseteq f.columns

\* lines 258-266: fewer than three channels
ClassifyFew(f) ==
    LET f1 == IF HasAll(f, {"T1", "T2", "T3", "T4"})
              THEN WithColumn(f, "CoreTemperature", RowMean(f, <<"T1", "T2", "T3", "T4">>))
              ELSE f
        f2 == IF HasAll(f1, {"T7", "T8"})
              THEN WithColumn(f1, "SurfaceTemperature", RowMean(f1, <<"T7", "T8">>))
              ELSE f1
    IN  WithColumn(f2, "AmbientTemperature",
                   IF available_sensors(f) # <<>> THEN RowMax(f, available_sensors(f))
                   ELSE [t \in 0..(f.len - 1) |-> 0])

\* lines 268-301: three channels or more
ClassifyMany(f) ==
    WithColumn(
        WithColumn(
            WithColumn(f, "CoreTemperature", RowMean(f, core_sensors(f))),
            "SurfaceTemperature", RowMean(f, surface_sensors(f))),
        "AmbientTemperature", RowMean(f, ambient_sensors(f)))

virtual_cols == {"VirtualCoreTemperature", "VirtualSurfaceTemperature", "VirtualAmbientTemperature"}
assignment_cols == {"VirtualCoreSensor", "VirtualSurfaceSensor", "VirtualAmbientSensor"}

\* lines 204-206
UseVirtual(f) ==
    WithColumn(
        WithColumn(
            WithColumn(f, "CoreTemperature", f.val["VirtualCoreTemperature"]),
            "SurfaceTemperature", f.val["VirtualSurfaceTemperature"]),
        "AmbientTemperature", f.val["VirtualAmbientTemperature"])

\* Series.mode().iloc[0]: the most frequent value, the first in sort order on
\* a tie
Mode(col, n) ==
    LET count == [v \in {col[t] : t \in 0..(n - 1)} |->
                    Cardinality({t \in 0..(n - 1) : col[t] = v})]
    IN  CHOOSE v \in DOMAIN count :
            \A w \in DOMAIN count :
                count[v] > count[w] \/ (count[v] = count[w] /\ SensorPos(v) <= SensorPos(w))

\* lines 241-245: the old average columns
WithAverages(f) ==
    LET f1 == IF HasAll(f, {"T1", "T2", "T3", "T4"})
              THEN WithColumn(f, "CoreAverage", RowMean(f, <<"T1", "T2", "T3", "T4">>))
              ELSE f
    IN  IF HasAll(f1, {"T7", "T8"})
        THEN WithColumn(f1, "SurfaceAverage", RowMean(f1, <<"T7", "T8">>))
        ELSE f1

(***************************************************************************)
(* The checked CSV files                                                   *)
(***************************************************************************)
MaxIndex == 2       \* largest index passed to set_current_curve
GapAt == 40         \* row at which the clock of a file jumps or restarts

\* the Timestamp column: seconds, one row every 5 seconds
Clock(kind, t) ==
    IF kind = "gap" THEN (IF t >= GapAt THEN 5 * t + 600 ELSE 5 * t)
    ELSE IF kind = "offset" THEN 1000 + 5 * t
    ELSE IF kind = "restart" THEN (IF t >= GapAt THEN 5 * (t - GapAt) ELSE 5 * t)
    ELSE 5 * t

\* per-channel offsets from the base series, T1..T8
Offsets(pattern) ==
    IF pattern = "rising" THEN <<0, 0, 8, 8, 16, 16, 40, 40>>
    ELSE IF pattern = "falling" THEN <<40, 40, 16, 16, 8, 8, 0, 0>>
    ELSE IF pattern = "flat" THEN <<0, 0, 0, 0, 0, 0, 0, 0>>
    ELSE <<0, 40, 8, 0, 16, 40, 8, 0>>

\* with pattern "spike", T1 reads lowest except for one very hot row
ChannelValue(pattern, k, s, t) ==
    s[t + 1] + Offsets(pattern)[k] + (IF pattern = "spike" /\ k = 1 /\ t = 1 THEN 80 ELSE 0)

CsvFile(channels, pattern, s, clock, extra) ==
    LET cols == {"Timestamp"} \cup channels \cup extra
    IN  [columns |-> cols, len |-> Len(s),
         val |-> [c \in cols |->
            IF c = "Timestamp" THEN [t \in 0..(Len(s) - 1) |-> Clock(clock, t)]
            ELSE IF c = "PredictionState" THEN Col(StateColumn(s))
            ELSE IF c = "VirtualCoreTemperature" THEN Col(s)
            ELSE IF c = "VirtualSurfaceTemperature" THEN [t \in 0..(Len(s) - 1) |-> s[t + 1] + 8]
            ELSE IF c = "VirtualAmbientTemperature" THEN [t \in 0..(Len(s) - 1) |-> s[t + 1] + 40]
            ELSE IF c = "VirtualCoreSensor"
                 THEN [t \in 0..(Len(s) - 1) |-> IF t % 3 = 0 THEN "T2" ELSE "T1"]
            ELSE IF c = "VirtualSurfaceSensor" THEN [t \in 0..(Len(s) - 1) |-> "T4"]
            ELSE IF c = "VirtualAmbientSensor" THEN [t \in 0..(Len(s) - 1) |-> "T8"]
            ELSE [t \in 0..(Len(s) - 1) |-> ChannelValue(pattern, SensorPos(c), s, t)]]]

\* a file whose header has no Timestamp column
WithoutTimestamp(f) ==
    [columns |-> f.columns \ {"Timestamp"}, len |-> f.len,
     val |-> [c \in f.columns \ {"Timestamp"} |-> f.val[c]]]

AllChannels == Elems(sensor_cols)

ChannelSets ==
    {{}, {"T1"}, {"T7", "T8"}, {"T1", "T2"}, {"T1", "T2", "T3"}, {"T2", "T5", "T6"},
     {"T1", "T2", "T3", "T4"}, {"T1", "T2", "T3", "T4", "T5"},
     AllChannels \ {"T4", "T7"}, AllChannels \ {"T3"}, AllChannels}

Patterns == {"rising", "falling", "flat", "mixed", "spike"}

ShortSeries == <<20, 24, 28, 24>>

OneBake == TwoBakes(3, 90, BakeLen, 30, GapLen, <<>>, 95, 0, "room", GapLen)

TwoBake == TwoBakes(3, 90, BakeLen, 30, GapLen, <<>>, 95, BakeLen, "room", GapLen)

\* a bake that is still hot when the recording stops
OpenBake == Hold(20, 3) \o Hold(90, BakeLen)

\* short files with every channel layout
ClassifierFiles ==
    {CsvFile(channels, pattern, ShortSeries, "regular", {}) :
        channels \in ChannelSets, pattern \in Patterns}
    \cup {CsvFile(AllChannels, "rising", <<>>, "regular", {})}

\* files with bakes in them
BakeFiles ==
    {CsvFile(AllChannels, "rising", OneBake, "gap", {}),
     CsvFile(AllChannels, "rising", TwoBake, "restart", {}),
     CsvFile(AllChannels, "rising", TwoBake, "offset", {"PredictionState"}),
     CsvFile({"T1", "T2", "T3", "T4"}, "flat", OneBake, "regular", {}),
     CsvFile({"T7", "T8"}, "flat", OneBake, "regular", {}),
     CsvFile({}, "flat", TwoBake, "regular", virtual_cols \cup assignment_cols),
     CsvFile(AllChannels, "rising", OpenBake, "regular", {})}
    \cup {CsvFile(AllChannels, "rising", s, "regular", {}) : s \in SpikeRecordings}

CsvFiles == ClassifierFiles \cup BakeFiles \cup {WithoutTimestamp(f) : f \in BakeFiles}

\* the files of a session of several loads
SessionFiles ==
    {CsvFile({"T1", "T2", "T3"}, "rising", ShortSeries, "regular", {}),
     CsvFile({"T1", "T2", "T3"}, "rising", OneBake, "gap", {}),
     CsvFile({"T1", "T2", "T3"}, "rising", TwoBake, "restart", {}),
     CsvFile({"T1", "T2", "T3"}, "rising", OpenBake, "offset", {}),
     CsvFile({"T7", "T8"}, "flat", ShortSeries, "regular", {}),
     CsvFile({}, "flat", ShortSeries, "regular", virtual_cols \cup assignment_cols),
     CsvFile({"T1", "T2", "T3"}, "rising", Hold(10, BaseLen - 2) \o <<100>> \o Hold(26, GapLen),
             "regular", {}),
     WithoutTimestamp(CsvFile({"T1", "T2", "T3"}, "rising", ShortSeries, "regular", {}))}

(***************************************************************************)
(* load_csv, set_current_curve and the queries of the loader               *)
(***************************************************************************)
\* lines 21-52: the file is read into self.data; the locals of the detector
\* start afresh
LoadCsvFrom(files) ==
    /\ pc = "idle"
    /\ \E f \in files : df' = f /\ data' = FrameData(f)
    /\ pc' = "clean"
    /\ call' = [op |-> "load_csv", arg |-> None]
    /\ i' = 0
    /\ start_idx' = None /\ peak_idx' = None /\ peak_temp' = None
    /\ search_start' = None /\ end_idx' = None /\ end_rule' = "none"
    /\ curves' = <<>>
    /\ outcome' = "running"
    /\ scanned' = {}
    /\ UNCHANGED <<all_curves, current_curve_index, sensor_assignments, ret>>
    /\ UNCHANGED boundary

\* load_csv on a loader in any state
LoadCsv == LoadCsvFrom(SessionFiles)

\* load_csv on a fresh loader
FirstLoad == call.op = "__init__" /\ LoadCsvFrom(CsvFiles)

detector == <<i, start_idx, peak_idx, peak_temp, search_start, end_idx, end_rule,
              curves, outcome, scanned>>

HasVirtual(f) == HasAll(f, virtual_cols \cup assignment_cols)

\* lines 55, 168-187, 201-232, 241-245: the probe's own role assignment
IdentifyVirtual ==
    /\ pc = "clean"
    /\ "Timestamp" \in df.columns
    /\ HasVirtual(df)
    /\ df' = WithAverages(UseVirtual(df))
    /\ data' = FrameData(df')
    /\ sensor_assignments' =
         IF df.len > 0
         THEN [method |-> "absent",
               core |-> <<Mode(df.val["VirtualCoreSensor"], df.len)>>,
               surface |-> <<Mode(df.val["VirtualSurfaceSensor"], df.len)>>,
               ambient |-> <<Mode(df.val["VirtualAmbientSensor"], df.len)>>]
         ELSE sensor_assignments
    /\ pc' = "entry"
    /\ UNCHANGED <<detector, all_curves, current_curve_index, call, ret>>
    /\ UNCHANGED boundary

\* lines 55, 168-187, 234-245, 255-266: fewer than three channels
ClassifyTooFew ==
    /\ pc = "clean"
    /\ "Timestamp" \in df.columns
    /\ ~HasVirtual(df)
    /\ Len(available_sensors(df)) < 3
    /\ df' = WithAverages(ClassifyFew(df))
    /\ data' = FrameData(df')
    /\ pc' = "entry"
    /\ UNCHANGED <<detector, all_curves, current_curve_index, sensor_assignments, call, ret>>
    /\ UNCHANGED boundary

\* lines 55, 168-187, 234-245, 268-311: three channels or more
ClassifyDynamically ==
    /\ pc = "clean"
    /\ "Timestamp" \in df.columns
    /\ ~HasVirtual(df)
    /\ Len(available_sensors(df)) >= 3
    /\ df' = WithAverages(ClassifyMany(df))
    /\ data' = FrameData(df')
    /\ sensor_assignments' =
         [method |-> "dynamic_classification", core |-> core_sensors(df),
          surface |-> surface_sensors(df), ambient |-> ambient_sensors(df)]
    /\ pc' = "entry"
    /\ UNCHANGED <<detector, all_curves, current_curve_index, call, ret>>
    /\ UNCHANGED boundary

\* line 180: df['Timestamp'] fails with a KeyError when the file has no
\* Timestamp column; self.data already holds the frame read from the file
CleanRaises ==
    /\ pc = "clean"
    /\ "Timestamp" \notin df.columns
    /\ pc' = "idle"
    /\ outcome' = "raised"
    /\ UNCHANGED <<df, i, start_idx, peak_idx, peak_temp, search_start, end_idx, end_rule,
                   curves, scanned, loader>>
    /\ UNCHANGED boundary

\* variant: the selection is left where it was
LoadedIndexKept(found) == current_curve_index

\* lines 61, 63: current_curve_index after the curves are stored
LoadedIndex(found) == IF found # <<>> THEN 0 ELSE current_curve_index

\* variant: the newly detected curves are added to the ones already held
StoreCurvesAppending(held, found) == held \o found

\* line 58
StoreCurves(held, found) == found

\* lines 58-65: the detector has returned
LoadCsvReturn ==
    /\ pc = "done"
    /\ outcome = "returned"
    /\ call.op = "load_csv"
    /\ all_curves' = StoreCurves(all_curves, curves)
    /\ data' = IF all_curves' # <<>> THEN all_curves'[1].data ELSE data
    /\ current_curve_index' = LoadedIndex(all_curves')
    /\ ret' = data'
    /\ pc' = "idle"
    /\ UNCHANGED <<df, detector, sensor_assignments, call>>
    /\ UNCHANGED boundary

\* lines 670-672
get_curve_count == Len(all_curves)

\* line 676
IndexInRange(curve_index) == 0 <= curve_index /\ curve_index < Len(all_curves)

\* variant: an index out of range selects the first curve
SelectedIndexResetting(curve_index) == IF IndexInRange(curve_index) THEN curve_index ELSE 0

\* lines 676-677: current_curve_index after set_current_curve(curve_index)
SelectedIndex(curve_index) ==
    IF IndexInRange(curve_index) THEN curve_index ELSE current_curve_index

\* variant: the data is left as it was
SelectedDataStale(curve_index) == data

\* lines 676, 678: self.data after set_current_curve(curve_index)
SelectedData(curve_index) ==
    IF IndexInRange(curve_index) THEN all_curves[curve_index + 1].data ELSE data

\* variant: None is returned for an index out of range
SelectReturnNone(curve_index, new_data) ==
    IF IndexInRange(curve_index) THEN new_data ELSE NoData

\* line 679: return self.data
SelectReturn(curve_index, new_data) == new_data

\* lines 674-679
SetCurrentCurve ==
    /\ pc = "idle"
    /\ \E curve_index \in -1..MaxIndex :
        /\ call' = [op |-> "set_current_curve", arg |-> curve_index]
        /\ current_curve_index' = SelectedIndex(curve_index)
        /\ data' = SelectedData(curve_index)
        /\ ret' = SelectReturn(curve_index, data')
    /\ UNCHANGED <<df, pc, detector, all_curves, sensor_assignments>>
    /\ UNCHANGED boundary

\* lines 681-685: the curve record, or None; the result is either the empty
\* sequence (None) or the sequence holding the one record
get_current_curve_info ==
    IF all_curves # <<>> /\ 0 <= current_curve_index /\ current_curve_index < Len(all_curves)
    THEN <<all_curves[current_curve_index + 1]>>
    ELSE <<>>

LoaderInit ==
    /\ df = [columns |-> {}, len |-> 0, val |-> <<>>]
    /\ pc = "idle"
    /\ i = 0
    /\ start_idx = None /\ peak_idx = None /\ peak_temp = None
    /\ search_start = None /\ end_idx = None /\ end_rule = "none"
    /\ curves = <<>>
    /\ outcome = "running"
    /\ scanned = {}
    /\ FreshLoader
    /\ BoundaryNotRun

LoaderNext ==
    \/ LoadCsv
    \/ IdentifyVirtual
    \/ ClassifyTooFew
    \/ ClassifyDynamically
    \/ CleanRaises
    \/ NoCoreColumn
    \/ Enter
    \/ WhileExit
    \/ FindStart
    \/ NoStart
    \/ FindPeak
    \/ FindCurveEnd
    \/ Retain
    \/ Discard
    \/ LoadCsvReturn
    \/ SetCurrentCurve

\* sessions: any sequence of loads and selections over a few files
LoaderSpec == LoaderInit /\ [][LoaderNext]_vars

FirstLoadNext ==
    \/ FirstLoad
    \/ IdentifyVirtual
    \/ ClassifyTooFew
    \/ ClassifyDynamically
    \/ CleanRaises
    \/ NoCoreColumn
    \/ Enter
    \/ WhileExit
    \/ FindStart
    \/ NoStart
    \/ FindPeak
    \/ FindCurveEnd
    \/ Retain
    \/ Discard
    \/ LoadCsvReturn

\* one load of any of the files into a fresh loader
FirstLoadSpec == LoaderInit /\ [][FirstLoadNext]_vars

(***************************************************************************)
(* detect_curve_boundaries (src/src/data/improved_curve_detection.py)      *)
(* as a state machine: one step per sample.  i is the index of the sample  *)
(* the for loop handles next.                                              *)
(***************************************************************************)
IDLE == 0
IN_CURVE == 1
COOLING == 2

HasVirtualCore == "VirtualCoreTemperature" \in df.columns

\* lines 24-32
boundary_core_col == IF HasVirtualCore THEN "VirtualCoreTemperature" ELSE "CoreAverage"
ambient_col == IF HasVirtualCore THEN "VirtualAmbientTemperature" ELSE "AmbientTemperature"

\* line 128: sensor_col and sensor_col in df.columns
HasSensorCol == HasVirtualCore /\ "VirtualCoreSensor" \in df.columns

core_temp(t) == df.val[boundary_core_col][t]

\* line 35
core_ambient_delta(t) == df.val[boundary_core_col][t] - df.val[ambient_col][t]

\* line 40, times 5
core_smooth5(t) ==
    IF t >= 2 /\ t + 2 <= len_df - 1
    THEN core_temp(t - 2) + core_temp(t - 1) + core_temp(t) + core_temp(t + 1) + core_temp(t + 2)
    ELSE 5 * core_temp(t)

\* lines 64-83, for the sample at index t
start_detected(t) ==
    /\ t > 0
    /\ \/ core_temp(t) - core_temp(t - 1) > 5
       \/ (t > 10 /\ core_ambient_delta(t) > 10 /\ core_ambient_delta(t - 10) < 5)
       \/ /\ "PredictionState" \in df.columns
          /\ df.val["PredictionState"][t - 1] = NotInserted
          /\ df.val["PredictionState"][t] # NotInserted

\* lines 106-108
NegativeDelta(t) ==
    /\ t >= 5
    /\ \A k \in (t - 5)..t : core_ambient_delta(k) < -5
    /\ core_temp(t) < 60

\* line 114, with the peak as updated at this sample
TempDrop(t, pt) == pt - core_temp(t) > 20

\* lines 119-123.  With y = 5 * core_smooth over the 21 samples t-20..t:
\*   std < 2        <=>  21 * sum(y^2) - sum(y)^2 < 42000
\*   15 < mean < 30 <=>  15 * 105 < sum(y) < 30 * 105
recent_smooth5(t) == [k \in (t - 20)..t |-> core_smooth5(k)]
SmoothSum(t) == SumOver(recent_smooth5(t), t - 20, t)
SmoothSumSq(t) == SumSqOver(recent_smooth5(t), t - 20, t)

RoomTempStable(t) ==
    /\ t >= 20
    /\ LET sum == SmoothSum(t)
       IN  /\ 15 * 105 < sum
           /\ sum < 30 * 105
           /\ 21 * SmoothSumSq(t) - sum * sum < 42000

unusual_sensors == {"T4", "T5", "T6"}

\* lines 128-137
UnusualSensor(t) ==
    /\ HasSensorCol
    /\ df.val["VirtualCoreSensor"][t] \in unusual_sensors
    /\ core_temp(t) < 40
    /\ t >= 10
    /\ Cardinality({k \in (t - 10)..t : df.val["VirtualCoreSensor"][k] \in unusual_sensors}) > 8

\* variant: the first test that holds gives the reason
EndReasonFirstWins(t, pt) ==
    IF NegativeDelta(t) THEN "negative_delta"
    ELSE IF TempDrop(t, pt) THEN "temp_drop"
    ELSE IF RoomTempStable(t) THEN "room_temp_stable"
    ELSE IF UnusualSensor(t) THEN "unusual_sensor"
    ELSE ""

\* lines 102-137: the four tests are made in turn, a later one that holds
\* overwrites the reason of an earlier one; "" when none holds
EndReason(t, pt) ==
    IF UnusualSensor(t) THEN "unusual_sensor"
    ELSE IF RoomTempStable(t) THEN "room_temp_stable"
    ELSE IF TempDrop(t, pt) THEN "temp_drop"
    ELSE IF NegativeDelta(t) THEN "negative_delta"
    ELSE ""

\* lines 141-158
CurveEnd(t, why, p) ==
    IF why = "negative_delta"
    THEN LET K == {j \in (p + 1)..(t - 5) : core_ambient_delta(j) > 5}
         IN  IF K = {} THEN t - 5 ELSE MaxOf(K)
    ELSE IF why = "room_temp_stable"
    THEN LET sum == SmoothSum(t)
             K == {j \in (p + 1)..(t - 20) : 105 * core_temp(j) > sum + 20 * 105}
         IN  IF K = {} THEN t - 20 ELSE MaxOf(K) + 5
    ELSE t

Segment(s, e, p, pt, why) ==
    [start_idx |-> s, end_idx |-> e, peak_idx |-> p, peak_temp |-> pt, end_reason |-> why]

\* lines 161-173
Validated(held, s, e, p, pt, why) ==
    IF e - s + 1 >= MIN_CURVE_DURATION /\ pt >= MIN_PEAK_TEMP
    THEN Append(held, Segment(s, e, p, pt, why))
    ELSE held

\* lines 21-56; line 35 fails with a KeyError when a column is missing
BoundaryEntry ==
    /\ pc = "start"
    /\ IF {boundary_core_col, ambient_col} \subseteq df.columns
       THEN /\ state' = IDLE
            /\ curve_peak_temp' = 0
            /\ i' = 0
            /\ pc' = "for"
            /\ UNCHANGED outcome
       ELSE /\ pc' = "done"
            /\ outcome' = "raised"
            /\ UNCHANGED <<state, curve_peak_temp, i>>
    /\ UNCHANGED <<df, start_idx, peak_idx, peak_temp, search_start, end_idx, end_rule,
                   curves, scanned, loader, curve_start, curve_peak, curve_end, reason>>

\* lines 62-89
IdleStep ==
    /\ pc = "for"
    /\ i < len_df
    /\ state = IDLE
    /\ IF start_detected(i)
       THEN /\ curve_start' = i
            /\ curve_peak' = i
            /\ curve_peak_temp' = core_temp(i)
            /\ state' = IN_CURVE
       ELSE UNCHANGED <<curve_start, curve_peak, curve_peak_temp, state>>
    /\ i' = i + 1
    /\ UNCHANGED <<df, pc, start_idx, peak_idx, peak_temp, search_start, end_idx, end_rule,
                   curves, outcome, scanned, loader, curve_end, reason>>

\* variant: the peak moves on an equal value too
TrackPeakOnEqual(t, p, pt) ==
    IF core_temp(t) >= pt THEN [idx |-> t, temp |-> core_temp(t)] ELSE [idx |-> p, temp |-> pt]

\* lines 92-94: track peak temperature
TrackPeak(t, p, pt) ==
    IF core_temp(t) > pt THEN [idx |-> t, temp |-> core_temp(t)] ELSE [idx |-> p, temp |-> pt]

\* variant: a new curve after a closed one starts as the first one does
restart_detectedAsStart(t, held) == start_detected(t)

\* variant: a new curve may start right after a retained one
restart_detectedNoGap(t, held) ==
    /\ t > 0
    /\ \/ core_temp(t) - core_temp(t - 1) > 2
       \/ (core_ambient_delta(t) > 10 /\ core_temp(t) > 30)

\* lines 179-188: a new curve after a closed one
restart_detected(t, held) ==
    /\ t > 0
    /\ \/ core_temp(t) - core_temp(t - 1) > 2
       \/ (core_ambient_delta(t) > 10 /\ core_temp(t) > 30)
    /\ \/ (held # <<>> /\ t - held[Len(held)].end_idx > 10)
       \/ held = <<>>

\* variant: the open curve is given up at the end of the data
FinishDropping(held, s, e, p, pt) == held

\* lines 197-207
FinishOpen(held, s, e, p, pt) == Validated(held, s, e, p, pt, "end_of_data")

\* lines 91-175
InCurveStep ==
    /\ pc = "for"
    /\ i < len_df
    /\ state = IN_CURVE
    /\ LET p == TrackPeak(i, curve_peak, curve_peak_temp).idx
           pt == TrackPeak(i, curve_peak, curve_peak_temp).temp
           why == EndReason(i, pt)
       IN  /\ curve_peak' = p
           /\ curve_peak_temp' = pt
           /\ reason' = why
           /\ IF why # ""
              THEN /\ curve_end' = CurveEnd(i, why, p)
                   /\ curves' = Validated(curves, curve_start, curve_end', p, pt, why)
                   /\ state' = COOLING
              ELSE UNCHANGED <<curve_end, curves, state>>
    /\ i' = i + 1
    /\ UNCHANGED <<df, pc, start_idx, peak_idx, peak_temp, search_start, end_idx, end_rule,
                   outcome, scanned, loader, curve_start>>

\* lines 177-194
CoolingStep ==
    /\ pc = "for"
    /\ i < len_df
    /\ state = COOLING
    /\ IF restart_detected(i, curves)
       THEN /\ curve_start' = i
            /\ curve_peak' = i
            /\ curve_peak_temp' = core_temp(i)
            /\ state' = IN_CURVE
       ELSE UNCHANGED <<curve_start, curve_peak, curve_peak_temp, state>>
    /\ i' = i + 1
    /\ UNCHANGED <<df, pc, start_idx, peak_idx, peak_temp, search_start, end_idx, end_rule,
                   curves, outcome, scanned, loader, curve_end, reason>>

\* lines 196-209: the loop is over
BoundaryFinish ==
    /\ pc = "for"
    /\ ~(i < len_df)
    /\ IF state = IN_CURVE
       THEN /\ curve_end' = len_df - 1
            /\ curves' = FinishOpen(curves, curve_start, curve_end', curve_peak, curve_peak_temp)
       ELSE UNCHANGED <<curve_end, curves>>
    /\ pc' = "done"
    /\ outcome' = "returned"
    /\ UNCHANGED <<df, i, start_idx, peak_idx, peak_temp, search_start, end_idx, end_rule,
                   scanned, loader, state, curve_start, curve_peak, curve_peak_temp, reason>>

\* the ambient series of a recording: as the core, hotter, or cooler
Ambient(kind, s) ==
    [t \in 1..Len(s) |-> IF kind = "oven" THEN s[t] + 40
                         ELSE IF kind = "cool" THEN s[t] - 20
                         ELSE s[t]]

\* the sensor the probe reports as core: T1, or T5 while the core is cool
CoreSensor(kind, s) ==
    [t \in 1..Len(s) |-> IF kind = "switching" /\ s[t] < 35 THEN "T5" ELSE "T1"]

\* a bake too short to keep, and one that never gets hot enough
ShortOpenBake == Hold(20, 3) \o Hold(90, BakeLen - 30)
LukewarmOpenBake == Hold(20, 3) \o Hold(70, BakeLen)

\* a bake that stays below 60
TepidBake == Hold(20, 3) \o Hold(55, BakeLen)

\* two bakes with only five cool samples between them
QuickReturn ==
    Hold(20, 3) \o Hold(90, BakeLen) \o Hold(30, 5) \o Hold(90, BakeLen) \o Hold(30, GapLen)

DetectorRecordings ==
    {<<>>, ShortSeries, OpenBake, ShortOpenBake, LukewarmOpenBake, TepidBake, OneBake, TwoBake,
     QuickReturn,
     Reinsertion(3, BakeLen, BakeLen), Hold(10, BaseLen - 2) \o <<100>> \o Hold(26, GapLen)}

DetectorFrame(cols, s, amb, sensor) ==
    [columns |-> cols, len |-> Len(s),
     val |-> [c \in cols |->
        IF c = "Timestamp" THEN [t \in 0..(Len(s) - 1) |-> 5 * t]
        ELSE IF c = "PredictionState" THEN Col(StateColumn(s))
        ELSE IF c \in {"VirtualAmbientTemperature", "AmbientTemperature"} THEN Col(Ambient(amb, s))
        ELSE IF c = "VirtualCoreSensor" THEN Col(CoreSensor(sensor, s))
        ELSE Col(s)]]

\* as read from a file of the probe, and as left by _clean_data
DetectorLayouts ==
    {{"Timestamp", "VirtualCoreTemperature", "VirtualAmbientTemperature", "VirtualCoreSensor"},
     {"Timestamp", "VirtualCoreTemperature", "VirtualAmbientTemperature", "VirtualCoreSensor",
      "PredictionState"},
     {"Timestamp", "CoreTemperature", "CoreAverage", "AmbientTemperature"},
     {"Timestamp", "CoreTemperature"}}

DetectorFrames ==
    {DetectorFrame(cols, s, amb, sensor) :
        cols \in DetectorLayouts, s \in DetectorRecordings,
        amb \in {"equal", "oven", "cool"}, sensor \in {"fixed", "switching"}}

\* either detector is run on a recording
DetectorsInit ==
    /\ df \in DetectorFrames
    /\ pc \in {"entry", "start"}
    /\ i = 0
    /\ start_idx = None /\ peak_idx = None /\ peak_temp = None
    /\ search_start = None /\ end_idx = None /\ end_rule = "none"
    /\ curves = <<>>
    /\ outcome = "running"
    /\ scanned = {}
    /\ FreshLoader
    /\ BoundaryNotRun

DetectorsNext ==
    \/ NoCoreColumn
    \/ Enter
    \/ WhileExit
    \/ FindStart
    \/ NoStart
    \/ FindPeak
    \/ FindCurveEnd
    \/ Retain
    \/ Discard
    \/ BoundaryEntry
    \/ IdleStep
    \/ InCurveStep
    \/ CoolingStep
    \/ BoundaryFinish

DetectorsSpec == DetectorsInit /\ [][DetectorsNext]_vars

(***************************************************************************)
(* Properties                                                              *)
(***************************************************************************)
HasCoreColumn == core_col \in df.columns

\* C1: retained curves are disjoint and ordered: end_idx of curve k is
\* strictly less than start_idx of curve k+1
C1_CurvesDisjointOrdered ==
    \A k \in 1..(Len(curves) - 1) : curves[k].end_idx < curves[k + 1].start_idx

\* C2: every pass of the outer loop moves the scan cursor strictly forward
\* (the new cursor end_idx + 1 is greater than the previous one), which is
\* what makes the scan terminate
C2_CursorStrictlyAdvances == [][pc = "validate" => i' > i]_vars

\* C3: the reported max_temp of every returned curve is the maximum core
\* temperature over its own samples start_idx..end_idx
C3_MaxTempIsCurveMaximum ==
    \A k \in 1..Len(curves) :
        curves[k].max_temp = MaxOver(core, curves[k].start_idx, curves[k].end_idx)

\* C4: at the moment a curve is retained, start_idx <= peak_idx <= end_idx
C4_PeakWithinCurve ==
    (pc = "validate" /\ IsValidCurve(end_idx - start_idx + 1, peak_temp))
        => (start_idx <= peak_idx /\ peak_idx <= end_idx)

\* C5: no returned curve is shorter than 60 samples or has max_temp below 80
C5_ThresholdsHonored ==
    \A k \in 1..Len(curves) :
        /\ curves[k].end_idx - curves[k].start_idx + 1 >= 60
        /\ curves[k].max_temp >= 80

\* a curve has been retained and a later candidate fails the validation
C5_Witness ==
    /\ Len(curves) >= 1
    /\ pc = "validate"
    /\ (end_idx - start_idx + 1 < 60 \/ peak_temp < 80)

\* series of zero or one sample, or whose core never reaches the minimum peak
Degenerate ==
    /\ HasCoreColumn
    /\ (len_df <= 1 \/ \A t \in 0..(len_df - 1) : core[t] < MIN_PEAK_TEMP)

\* C6: on degenerate input the function returns, and returns the empty list.
\* A pass is a function of the recording and the cursor alone, so the call
\* returns exactly when no pass starts from a cursor an earlier pass started
\* from.
C6_DegenerateReturnsEmpty ==
    Degenerate =>
        /\ (pc = "while" /\ i < len_df) => i \notin scanned
        /\ pc = "done" => (outcome = "returned" /\ curves = <<>>)

\* C7 as claimed: a missing core temperature column is signalled as a hard
\* error, not answered with an ordinary return
C7_MissingColumnIsHardError ==
    (pc = "done" /\ ~HasCoreColumn) => outcome = "raised"

\* C7 as the code has it: a missing core temperature column is answered with
\* an ordinary return of the empty list
C7_MissingColumnReturnsEmpty ==
    (pc = "done" /\ ~HasCoreColumn) => (outcome = "returned" /\ curves = <<>>)

C7_Witness == pc = "done" /\ ~HasCoreColumn

IsRecording(s) == HasCoreColumn /\ len_df = Len(s) /\ core = Col(s)

\* C8: the slow rise 20 -> 97 followed by a sharp drop to 19 yields exactly one
\* curve, with max_temp 97 and end_idx within a few samples of the drop onset
C8_SingleCurveStability ==
    (pc = "done" /\ "PredictionState" \notin df.columns /\ IsRecording(SlowRise))
        => /\ Len(curves) = 1
           /\ curves[1].max_temp = 97
           /\ curves[1].end_idx >= RampLen - 1 - 3
           /\ curves[1].end_idx <= RampLen - 1 + 3

C10_NoiseImmunity ==
    (pc = "done" /\ "PredictionState" \notin df.columns
        /\ \E s \in HeatingRecordings : IsRecording(s))
        => Len(curves) = 1

(***************************************************************************)
(* Properties of the loader                                                *)
(***************************************************************************)
\* a load_csv call has just returned
LoadReturned == pc = "idle" /\ call.op = "load_csv" /\ outcome = "returned"

\* a set_current_curve call has just returned
SelectReturned == pc = "idle" /\ call.op = "set_current_curve"

C12_InvalidSelectIsNoOp ==
    [][(pc = "idle" /\ pc' = "idle" /\ call'.op = "set_current_curve"
            /\ (call'.arg < 0 \/ call'.arg >= Len(all_curves)))
        => UNCHANGED <<current_curve_index, data, all_curves>>]_vars

\* the second of two curves is selected and the last call passed the count
C12_Witness ==
    /\ SelectReturned
    /\ Len(all_curves) = 2
    /\ call.arg = 2
    /\ current_curve_index = 1

\* C13 as claimed: the result of set_current_curve with an index out of range
\* is none of the results a successful selection returns
C13_InvalidSelectSignalsFailure ==
    (SelectReturned /\ (call.arg < 0 \/ call.arg >= Len(all_curves)))
        => \A k \in 1..Len(all_curves) : ret # all_curves[k].data

\* C13 as the code has it: with an index out of range set_current_curve
\* returns the data the loader holds, which is the data of the selected curve
\* whenever there are curves and the last load_csv call has not failed
C13_InvalidSelectReturnsHeldData ==
    (SelectReturned /\ (call.arg < 0 \/ call.arg >= Len(all_curves)))
        => /\ ret = data
           /\ all_curves # <<>> /\ outcome # "raised" =>
                ret = all_curves[current_curve_index + 1].data

C13_Witness ==
    /\ SelectReturned
    /\ call.arg = -1
    /\ Len(all_curves) = 2
    /\ ret = all_curves[2].data

\* C14: set_current_curve with an index in range sets current_curve_index to
\* it and returns the data of that curve; get_current_curve_info() then returns
\* that curve, and it returns None only when there are no curves
C14_ValidSelect ==
    /\ (SelectReturned /\ 0 <= call.arg /\ call.arg < Len(all_curves))
         => /\ current_curve_index = call.arg
            /\ ret = all_curves[call.arg + 1].data
            /\ get_current_curve_info = <<all_curves[call.arg + 1]>>
    /\ (pc = "idle" /\ get_current_curve_info = <<>>) => all_curves = <<>>

C14_Witness ==
    /\ SelectReturned
    /\ call.arg = 1
    /\ Len(all_curves) = 2
    /\ ret = all_curves[2].data
    /\ ret # all_curves[1].data

(***************************************************************************)
(* Properties of the normalized curve data                                 *)
(***************************************************************************)
\* the Timestamp column of the loaded recording
Timestamps == df.val["Timestamp"]

\* C15: the data of every retained curve is the rows start_idx..end_idx of
\* the recording, in order and re-indexed from 0, samples = end_idx -
\* start_idx + 1, and the Timestamp of each row is the original timestamp
\* minus the original timestamp at start_idx: the first row is at time zero
\* and the gaps between consecutive rows are the original gaps
C15_CurveDataIsShiftedSlice ==
    \A k \in 1..Len(curves) :
        LET c == curves[k]
            n == c.end_idx - c.start_idx + 1
        IN  /\ c.samples = n
            /\ DOMAIN c.data.rows = 0..(n - 1)
            /\ DOMAIN c.data.Timestamp = 0..(n - 1)
            /\ \A r \in 0..(n - 1) :
                /\ c.data.rows[r] = c.start_idx + r
                /\ c.data.Timestamp[r] = Timestamps[c.start_idx + r] - Timestamps[c.start_idx]
            /\ c.data.Timestamp[0] = 0
            /\ \A r \in 0..(n - 2) :
                c.data.Timestamp[r + 1] - c.data.Timestamp[r]
                    = Timestamps[c.start_idx + r + 1] - Timestamps[c.start_idx + r]

\* a retained curve that starts after row 0 and has a gap of 605 seconds
\* between two of its rows
C15_Witness ==
    \E k \in 1..Len(curves) :
        /\ curves[k].start_idx > 0
        /\ curves[k].start_time > 0
        /\ \E r \in 0..(curves[k].samples - 2) :
            curves[k].data.Timestamp[r + 1] - curves[k].data.Timestamp[r] = 605

NonDecreasing(ts, lo, hi) == \A t \in lo..(hi - 1) : ts[t] <= ts[t + 1]

\* C16: shifting the timestamps of a normalized curve again changes nothing;
\* when the original timestamps of the curve are non-decreasing, every
\* normalized timestamp is >= 0 and the first is 0
C16_ShiftIdempotent ==
    \A k \in 1..Len(curves) :
        LET c == curves[k]
        IN  /\ ShiftTimestamps(c.data.Timestamp) = c.data.Timestamp
            /\ NonDecreasing(Timestamps, c.start_idx, c.end_idx)
                 => /\ c.data.Timestamp[0] = 0
                    /\ \A r \in DOMAIN c.data.Timestamp : c.data.Timestamp[r] >= 0

\* a retained curve whose original timestamps are non-decreasing and start
\* at 1000 seconds or later
C16_Witness ==
    \E k \in 1..Len(curves) :
        /\ NonDecreasing(Timestamps, curves[k].start_idx, curves[k].end_idx)
        /\ curves[k].start_time >= 1000
        /\ curves[k].data.Timestamp[curves[k].samples - 1] > 0

\* a retained curve over a clock that restarts has negative timestamps
RestartedClockCurve ==
    \E k \in 1..Len(curves) :
        /\ ~NonDecreasing(Timestamps, curves[k].start_idx, curves[k].end_idx)
        /\ \E r \in DOMAIN curves[k].data.Timestamp : curves[k].data.Timestamp[r] < 0

(***************************************************************************)
(* Properties of the role resolver                                         *)
(***************************************************************************)
\* the raw channels of the loaded file
Channels == {c \in AllChannels : c \in df.columns}

\* the fallback path has classified the channels of the loaded file
ClassifiedDynamically ==
    /\ pc \notin {"idle", "clean"}
    /\ ~HasVirtual(df)
    /\ Cardinality(Channels) >= 3

LowestMax(c) == \A c2 \in Channels : ColMax(df, c) <= ColMax(df, c2)
HighestMax(c) == \A c2 \in Channels : ColMax(df, c) >= ColMax(df, c2)
OnlyLowestMax(c) == \A c2 \in Channels \ {c} : ColMax(df, c) < ColMax(df, c2)
OnlyHighestMax(c) == \A c2 \in Channels \ {c} : ColMax(df, c) > ColMax(df, c2)

\* C17: in the fallback path with at least 3 raw channels, the channel with
\* the lowest maximum over the whole series is one of the channels whose mean
\* is CoreTemperature, and the channel with the highest maximum is one of the
\* channels whose mean is AmbientTemperature (with equal maxima, one of the
\* channels attaining the extreme is)
C17_ExtremeChannelsAssigned ==
    ClassifiedDynamically =>
        /\ df.val["CoreTemperature"] = RowMean(df, sensor_assignments.core)
        /\ df.val["AmbientTemperature"] = RowMean(df, sensor_assignments.ambient)
        /\ \E c \in Elems(sensor_assignments.core) : LowestMax(c)
        /\ \E c \in Elems(sensor_assignments.ambient) : HighestMax(c)
        /\ \A c \in Channels : OnlyLowestMax(c) => c \in Elems(sensor_assignments.core)
        /\ \A c \in Channels : OnlyHighestMax(c) => c \in Elems(sensor_assignments.ambient)

\* five channels or more, the coolest is a single channel other than T1 and
\* the hottest is T1 because of one hot row
C17_Witness ==
    /\ ClassifiedDynamically
    /\ Cardinality(Channels) >= 5
    /\ OnlyHighestMax("T1")
    /\ \E c \in Channels \ {"T1"} : OnlyLowestMax(c)

\* the fallback path has handled a file with fewer than 3 raw channels
ClassifiedFew ==
    /\ pc \notin {"idle", "clean"}
    /\ ~HasVirtual(df)
    /\ Cardinality(Channels) < 3

\* C18: with fewer than 3 raw channels the resolver still yields the three
\* series CoreTemperature, SurfaceTemperature and AmbientTemperature, so that
\* the detector finds a core column to run on
C18_FewChannelsYieldAllRoles ==
    ClassifiedFew =>
        /\ {"CoreTemperature", "SurfaceTemperature", "AmbientTemperature"} \subseteq df.columns
        /\ pc = "done" => HasCoreColumn

(***************************************************************************)
(* Properties of the start search                                          *)
(***************************************************************************)
HasStateColumn == "PredictionState" \in df.columns

\* the indices at or after the cursor at which the PredictionState rule holds
StateChanges ==
    LET holds == [j \in i..(len_df - 2) |-> HasStateColumn /\ StateChangeAt(j)]
    IN  {j \in i..(len_df - 2) : holds[j]}

\* the indices at or after the cursor at which a temperature rule holds
TemperatureRises ==
    LET holds == [j \in i..(len_df - 2) |-> RapidRiseAt(j) \/ SustainedRiseAt(j)]
    IN  {j \in i..(len_df - 2) : holds[j]}

\* the start index rule by rule, for a rule holding at index j
StartDecidedAt(j) ==
    \/ j \in StateChanges /\ start_idx = j + 1
    \/ j \in TemperatureRises /\ RapidRiseAt(j) /\ start_idx = j
    \/ j \in TemperatureRises /\ SustainedRiseAt(j) /\ start_idx = j - 5

\* C19 as claimed: the start is decided at the earliest index at or after the
\* cursor at which any start rule holds; a rule that first holds later never
\* pre-empts a rule that holds earlier
C19_EarliestRuleDecides ==
    pc = "peak" => StartDecidedAt(MinOf(StateChanges \cup TemperatureRises))

\* C19 as the code has it: when the recording has a PredictionState column
\* with a transition out of 'Probe Not Inserted' at or after the cursor, the
\* first such transition decides the start, wherever the temperature rules
\* hold; otherwise the earliest index at which a temperature rule holds decides,
\* the rapid rise being tested first at that index
C19_StateRuleFirst ==
    pc = "peak" =>
        IF StateChanges # {}
        THEN start_idx = MinOf(StateChanges) + 1
        ELSE /\ TemperatureRises # {}
             /\ start_idx = IF RapidRiseAt(MinOf(TemperatureRises))
                            THEN MinOf(TemperatureRises)
                            ELSE MinOf(TemperatureRises) - 5

\* the start was decided by a PredictionState transition although a
\* temperature rule holds at an earlier index
C19_Witness ==
    /\ pc = "peak"
    /\ StateChanges # {}
    /\ TemperatureRises # {}
    /\ MinOf(TemperatureRises) < MinOf(StateChanges)
    /\ start_idx = MinOf(StateChanges) + 1

(***************************************************************************)
(* Properties of the end of the data                                       *)
(***************************************************************************)
LastCurve == curves[Len(curves)]

\* the candidate of _extract_all_baking_curves that is open at the end of the
\* data meets the duration and peak thresholds
OpenCandidateValid == (len_df - 1) - start_idx + 1 >= 60 /\ peak_temp >= 80

\* the same for the open curve of detect_curve_boundaries
OpenCurveValid == (len_df - 1) - curve_start + 1 >= 60 /\ curve_peak_temp >= 80

\* detect_curve_boundaries has returned with a curve open at the last sample
BoundaryEndedInCurve == pc = "done" /\ outcome = "returned" /\ state = IN_CURVE

\* C20: when a start has fired and no end rule fires before the data ends,
\* the open curve is closed at the last sample index, it is retained exactly
\* when it meets the duration and peak thresholds (with end_reason
\* 'end_of_data' in detect_curve_boundaries), and no further candidate follows
C20_OpenCurveClosedAtEnd ==
    /\ end_rule = "end_of_data" =>
        /\ pc \in {"validate", "while", "done"}
        /\ end_idx = len_df - 1
        /\ pc \in {"while", "done"} =>
            /\ i = len_df
            /\ OpenCandidateValid <=>
                 /\ curves # <<>>
                 /\ LastCurve.start_idx = start_idx
                 /\ LastCurve.end_idx = len_df - 1
    /\ BoundaryEndedInCurve =>
        /\ curve_end = len_df - 1
        /\ OpenCurveValid <=>
             /\ curves # <<>>
             /\ LastCurve = Segment(curve_start, len_df - 1, curve_peak, curve_peak_temp,
                                    "end_of_data")
    /\ state # None =>
        \A k \in 1..Len(curves) :
            curves[k].end_reason = "end_of_data" =>
                (k = Len(curves) /\ pc = "done" /\ curves[k].end_idx = len_df - 1)

\* _extract_all_baking_curves has returned a curve that was closed by the end
\* of the data
C20_Witness ==
    /\ state = None
    /\ pc = "done"
    /\ end_rule = "end_of_data"
    /\ curves # <<>>
    /\ LastCurve.end_idx = len_df - 1

\* detect_curve_boundaries has returned a curve closed by the end of the data
BoundaryOpenRetained == BoundaryEndedInCurve /\ curves # <<>> /\ OpenCurveValid

\* either detector has dropped a curve that was open at the end of the data
OpenDropped ==
    \/ (state = None /\ pc = "done" /\ end_rule = "end_of_data" /\ ~OpenCandidateValid)
    \/ (BoundaryEndedInCurve /\ ~OpenCurveValid)

(***************************************************************************)
(* Properties of the end search                                            *)
(***************************************************************************)
\* an end rule has fired for the candidate under validation
EndRuleFired == pc = "validate" /\ end_rule # "end_of_data"

\* the index at which the end rule fired: the first index after the search
\* start at which one of the three tests passes
DetectionIndex ==
    LET fires == [j \in (search_start + 1)..(len_df - 1) |->
                    EndFiresAt(j, search_start, peak_idx, peak_temp)]
    IN  MinOf({j \in (search_start + 1)..(len_df - 1) : fires[j]})

\* the backward walk of the rule that fired at j meets no inflection point
NoInflection(j) ==
    IF end_rule = "plateau"
    THEN \A k \in (search_start + 1)..(j - window_size) : ~(105 * core[k] > WinSum(j) + 2100)
    ELSE IF end_rule = "drop"
    THEN \A k \in (peak_idx + 1)..j : ~(k > 0 /\ core[k - 1] - core[k] > 10)
    ELSE TRUE

LevelTest(k) ==
    IF end_rule = "cool" THEN core[k] < ROOM_TEMP_MAX /\ peak_temp - core[k] > 50
    ELSE peak_temp - core[k] > 40

\* sample j passes the level test and neither neighbour does
IsolatedLow(j) == LevelTest(j) /\ ~LevelTest(j - 1) /\ ~LevelTest(j + 1)

\* C22: a single isolated low reading never ends a curve: when the rapid
\* cooling rule or the drop rule fires at j, sample j is not the only one of
\* j-1, j, j+1 that passes the rule's level test
C22_IsolatedLowNeverEnds ==
    EndRuleFired /\ end_rule \in {"cool", "drop"} => ~IsolatedLow(DetectionIndex)

\* the drop rule fired on a reading whose neighbours are above the threshold,
\* and three samples later the core is back at the peak temperature
DipEndedCurve ==
    /\ EndRuleFired
    /\ end_rule = "drop"
    /\ IsolatedLow(DetectionIndex)
    /\ core[DetectionIndex - 1] = peak_temp
    /\ core[DetectionIndex + 3] = peak_temp

(***************************************************************************)
(* Disjoint roles in the fallback resolver                                 *)
(***************************************************************************)
\* the channels averaged into each role by the fallback path
RoleChannels ==
    [core |-> Elems(sensor_assignments.core), surface |-> Elems(sensor_assignments.surface),
     ambient |-> Elems(sensor_assignments.ambient)]

\* C23: in the fallback path with 3 to 8 raw channels, the channel sets
\* behind CoreTemperature, SurfaceTemperature and AmbientTemperature are
\* pairwise disjoint
C23_RolesDisjoint ==
    ClassifiedDynamically =>
        /\ df.val["SurfaceTemperature"] = RowMean(df, sensor_assignments.surface)
        /\ RoleChannels.core \cap RoleChannels.surface = {}
        /\ RoleChannels.core \cap RoleChannels.ambient = {}
        /\ RoleChannels.surface \cap RoleChannels.ambient = {}

\* with six channels or more the three sets are disjoint
SixOrMoreDisjoint ==
    ClassifiedDynamically /\ Cardinality(Channels) >= 6 =>
        /\ RoleChannels.core \cap RoleChannels.surface = {}
        /\ RoleChannels.core \cap RoleChannels.ambient = {}
        /\ RoleChannels.surface \cap RoleChannels.ambient = {}

FirstMaximum(p, pt, lo, hi) ==
    /\ lo <= p /\ p <= hi
    /\ core_temp(p) = pt
    /\ \A t \in lo..hi : core_temp(t) <= pt
    /\ \A t \in lo..(p - 1) : core_temp(t) < pt

\* the boundary scan is running or has returned
BoundaryRan == state # None /\ pc \in {"for", "done"}

\* C25: while the scan is IN_CURVE, after each processed sample the tracked
\* peak temperature is the maximum of the core from curve_start to that sample
\* and the tracked peak index is the first index attaining it; every returned
\* segment has start_idx <= peak_idx, and its peak is the first maximum of the
\* core from its start to its peak
C25_PeakIsFirstRunningMaximum ==
    /\ pc = "for" /\ state = IN_CURVE =>
          FirstMaximum(curve_peak, curve_peak_temp, curve_start, i - 1)
    /\ BoundaryRan =>
          \A k \in 1..Len(curves) :
              /\ curves[k].start_idx <= curves[k].peak_idx
              /\ FirstMaximum(curves[k].peak_idx, curves[k].peak_temp,
                              curves[k].start_idx, curves[k].peak_idx)
              /\ \A t \in curves[k].start_idx..curves[k].end_idx :
                    core_temp(t) <= curves[k].peak_temp

\* the scan is in a curve whose maximum has been attained at several samples,
\* after a first maximum that lies after the start of the curve
C25_Witness ==
    /\ pc = "for"
    /\ state = IN_CURVE
    /\ curve_start < curve_peak
    /\ \E t \in (curve_peak + 1)..(i - 1) : core_temp(t) = curve_peak_temp

(***************************************************************************)
(* Gap between the segments of the boundary scan                           *)
(***************************************************************************)
\* C26: the segments returned by detect_curve_boundaries are ordered and
\* disjoint, and a curve that starts after a retained segment starts more
\* than 10 samples after that segment's end_idx
C26_GapAfterRetainedSegment ==
    BoundaryRan =>
        /\ \A k \in 1..Len(curves) : curves[k].start_idx <= curves[k].end_idx
        /\ \A k \in 1..(Len(curves) - 1) :
              curves[k + 1].start_idx - curves[k].end_idx > 10
        /\ pc = "for" /\ state = IN_CURVE /\ curves # <<>> =>
              curve_start - curves[Len(curves)].end_idx > 10

\* two segments have been returned, and the second bake began fewer than 10
\* samples after the end of the first segment
C26_Witness ==
    /\ BoundaryRan
    /\ pc = "done"
    /\ Len(curves) = 2
    /\ \E t \in (curves[1].end_idx + 1)..(curves[1].end_idx + 10) :
          core_temp(t) - core_temp(t - 1) > 2

(***************************************************************************)
(* Registry invariants                                                     *)
(***************************************************************************)
\* the loader is between two calls
BetweenCalls == pc = "idle"

\* C27: between calls, whenever get_curve_count() > 0 the selection satisfies
\* 0 <= current_curve_index < get_curve_count()
C27_IndexInRange ==
    BetweenCalls /\ get_curve_count > 0 =>
        0 <= current_curve_index /\ current_curve_index < get_curve_count

\* a load has failed on a loader that holds two curves, the second selected
C27_Witness ==
    /\ BetweenCalls
    /\ call.op = "load_csv"
    /\ outcome = "raised"
    /\ get_curve_count = 2
    /\ current_curve_index = 1

\* lines 662-664
get_analysis_data == data

\* C28: between calls, whenever get_curve_count() > 0 the loader's data is
\* the data of all_curves[current_curve_index], so get_analysis_data() and
\* get_current_curve_info() describe the same curve
C28_DataIsSelectedCurve ==
    BetweenCalls /\ get_curve_count > 0 =>
        /\ get_current_curve_info # <<>>
        /\ get_analysis_data = get_current_curve_info[1].data

\* the same, as long as no load_csv call has failed since the last one that
\* returned
DataIsSelectedCurveUnlessRaised ==
    BetweenCalls /\ get_curve_count > 0 /\ outcome # "raised" =>
        /\ get_current_curve_info # <<>>
        /\ get_analysis_data = get_current_curve_info[1].data

(***************************************************************************)
(* End reasons of retained segments                                        *)
(***************************************************************************)
LaterReasons == {"temp_drop", "room_temp_stable", "unusual_sensor"}

\* C29: whenever the negative-delta rule fires at a sample of a candidate
\* whose peak meets the threshold, the reason recorded at that sample is
\* temp_drop, room_temp_stable or unusual_sensor; and no segment held by the
\* scan carries a reason other than these three and end_of_data
C29_NoNegativeDeltaSegment ==
    [][/\ (pc = "for" /\ state = IN_CURVE /\ i < len_df /\ NegativeDelta(i)
            /\ curve_peak_temp' >= MIN_PEAK_TEMP)
          => reason' \in LaterReasons
       /\ state' # None =>
            \A k \in 1..Len(curves') :
                curves'[k].end_reason \in LaterReasons \cup {"end_of_data"}]_vars

\* a segment has just been retained at a sample where the negative-delta
\* rule fired
C29_Witness ==
    /\ pc = "for"
    /\ state = COOLING
    /\ curves # <<>>
    /\ curves[Len(curves)].end_idx = i - 1
    /\ NegativeDelta(i - 1)
    /\ reason \in LaterReasons

\* a candidate has just been closed with the reason negative_delta
NegativeDeltaRecorded == pc = "for" /\ state = COOLING /\ reason = "negative_delta"

(***************************************************************************)
(* Every curve of the extractor gets hot                                   *)
(***************************************************************************)
\* the candidate under validation will be retained
CandidateRetained == pc = "validate" /\ IsValidCurve(end_idx - start_idx + 1, peak_temp)

\* C30: every curve returned by the extractor has, among its own samples
\* start_idx..end_idx, one whose core temperature is above 70; for a retained
\* candidate the search start is such a sample, it lies in the curve, and the
\* end index is not before it
C30_CurveHasSampleAbove70 ==
    /\ \A k \in 1..Len(curves) :
          \E t \in curves[k].start_idx..curves[k].end_idx : core[t] > 70
    /\ CandidateRetained =>
          /\ start_idx <= search_start
          /\ search_start <= end_idx
          /\ core[search_start] > 70

\* a candidate that starts on a sample not above 70 is retained, its end was
\* set by an end rule, and its search start lies before its peak
C30_Witness ==
    /\ CandidateRetained
    /\ core[start_idx] <= 70
    /\ end_rule # "end_of_data"
    /\ search_start < peak_idx

====
